---- MODULE Spec2Model ----
(***************************************************************************)
(* The scheduled job runner of cron.js (src/unnamed/part_000): the jobs    *)
(* that dispatch ScheduledReminder rows, create streak reminders and       *)
(* notifications, and write the job lifecycle log.                         *)
(*                                                                         *)
(* Time is counted in whole hours since midnight of day 0.  The Data Store *)
(* and the push sink are the environment: each awaited call either         *)
(* succeeds or throws, chosen nondeterministically per call.               *)
(***************************************************************************)
EXTENDS Integers, Sequences, FiniteSets, TLC

\* ------------------------------------------------------------------ bounds
StartTime == 23
MaxTime == 24
MaxReminders == 2
MaxRuns == 2
MaxLogs == 1
FirstWeekday == 5
RowRuns == 1
RowRows == 1
ScanStartTime == 21
ScanRuns == 3
ScanRows == 2
MilestoneStart == 6
MilestoneMaxTime == 71
MilestoneRuns == 4
DailyGoal == 1
JobsStartTime == 18
JobsRuns == 2
JobsRows == 1
PrepareRuns == 3
PrepareRows == 3
PrepareMaxTime == 24

\* Digest and daily-goal specification: invocations, last hour of the run.
DigestRuns == 2

DigestMaxTime == 47

\* Due-query specification: invocations, rows.
DueRuns == 2

DueRows == 2

\* Dispatch liveness specification: invocations, rows.
LiveRuns == 2

LiveRows == 1

\* Overlapping-dispatch specification: invocations, rows.
OverlapRuns == 2

OverlapRows == 2

\* At-risk scans specification: invocations, rows.
AtRiskRuns == 2

AtRiskRows == 2

\* Warning-scan specification: first hour, last hour, invocations, rows.
WarnStartTime == 18

WarnMaxTime == 21

WarnRuns == 2

WarnRows == 2

\* Streak Engine specification: settlements applied, highest initial streak,
\* last hour of the run.
SettleRuns == 3

SettleStreak == 2

SettleMaxTime == 47

\* --------------------------------------------------------------- constants
HoursPerDay == 24
PreservationWindowHours == 2
PreservationThreshold == 7
WarningThreshold == 2
WarningHour == 20
ReminderHour == 9

Users == {1}
Habits == {1, 2}
\* The habits that have reminders configured and get completions logged.
ReminderHabits == {1}

\* Habit.user_id: the owner of a habit (foreign key Habit -> User).
HabitOwner(h) == 1

NULL == "NULL"

\* A Habit row with the schema defaults.
NewHabit ==
    [is_active |-> TRUE, frequency_type |-> "DAILY", skip_on_vacation |-> FALSE,
     grace_period_enabled |-> TRUE]

\* A HabitStreak row with the schema defaults.
\* A new User row registered at t: the schema defaults of the two flags.
NewUser(t) ==
    [prefersNotifications |-> TRUE, onVacation |-> FALSE, dailyGoal |-> DailyGoal,
     registeredAt |-> t]

\* last_completed is a nullable date: <<>> is NULL, <<d>> is day d.
NewStreak ==
    [current_streak |-> 0, longest_streak |-> 0, last_completed |-> <<>>,
     missed_days_count |-> 0, grace_period_used |-> FALSE, last_reset_reason |-> NULL]

VARIABLES
    now,            \* wall clock, hours
    users,          \* User rows: user_id -> [prefersNotifications, onVacation]
    quietUsers,     \* users whose configured quiet-hours window contains now
    habits,         \* Habit rows: habit_id -> [is_active, frequency_type]
    streaks,        \* HabitStreak rows, one per habit
    habitLog,       \* HabitLog rows (completed = true)
    reminders,      \* ScheduledReminder rows, index = scheduled_reminder_id
    notifications,  \* Notification rows, index = notification_id
    pushLog,        \* calls of notificationService.sendToUser
    jobLog,         \* logJobStatus records of each job's latest invocation
    jobError,       \* history: the number of each job's latest invocation and
                    \* where it threw to its outer catch: "none", "query", "body"
    runs,           \* job invocations started so far
    maxRuns,        \* the number of invocations a behaviour may start
    maxRows,        \* the number of ScheduledReminder rows it may write
    maxTime,        \* the hour at which the behaviour's clock stops
    dpc,            \* process-reminders: "idle" or "loop"
    dNow,           \* process-reminders: const now
    dueReminders,   \* process-reminders: rows still to process
    results,        \* process-reminders: results counters
    settled,        \* results of settleDay in the latest daily rollover, per habit
    attained,       \* history: rollovers that moved the streak onto a milestone
    rolledDay,      \* schedule: the day of the latest daily-streak-update
    scannedDay,     \* schedule: the day of the latest streak-milestone-check
    notifCount,     \* history: Notification rows dispatch created per reminder
    raised,         \* history: reminders whose processing raised in this run
    batch,          \* history: ids read by the due query of this run
    overlap         \* process-reminders: the locals of an invocation fired while
                    \* the previous one has not settled

vars == <<now, users, quietUsers, habits, streaks, habitLog, reminders,
          notifications, pushLog, jobLog, jobError, runs, maxRuns, maxRows, maxTime,
          settled, attained, rolledDay, scannedDay,
          dpc, dNow, dueReminders, results, notifCount, raised, batch, overlap>>

\* The Data Store and the push sink.
storeVars == <<users, quietUsers, habits, streaks, habitLog, reminders,
               notifications, pushLog>>
jobVars == <<jobLog, jobError, runs, maxRuns, maxRows, maxTime>>
rolloverVars == <<settled, attained, rolledDay, scannedDay>>
dispatchVars == <<dpc, dNow, dueReminders, results, notifCount, raised, batch, overlap>>

\* ----------------------------------------------------------------- helpers
Day(t) == t \div HoursPerDay

Jobs == {"daily-streak-update", "streak-milestone-check", "streak-warning-check",
         "process-reminders", "streak-preservation-reminder",
         "prepare-next-day-reminders", "weekly-habit-review", "daily-goal-check",
         "new-user-welcome"}

Hour(t) == t % HoursPerDay

ReasonPreference == "User preferences or status"
ReasonCompleted == "Already completed"
StoreError == "store error"
UndefinedIdError == "Cannot read properties of undefined (reading 'id')"

\* The awaited calls of one loop body that can throw.
FaultPoints == {"read", "update", "create", "push", "mark"}

\* logJobStatus(jobName, status): one record appended to the job's log.
logJobStatus(log, jobName, status) == [log EXCEPT ![jobName] = Append(@, status)]

\* The cron callback is invoked: the records of the job's earlier invocation are
\* dropped from the window and 'started' is logged.
StartedUnlogged(log, jobName) == [log EXCEPT ![jobName] = <<>>]

Started(log, jobName) == logJobStatus([log EXCEPT ![jobName] = <<>>], jobName, "started")

\* The error (if any) that reached the outer catch of the job's invocation,
\* which is the invocation number runs + 1.
\* faulted: the users whose iteration met an error in this invocation.
ThrewFor(jobName, e, faulted) ==
    [jobError EXCEPT ![jobName] = [run |-> runs + 1, error |-> e, faulted |-> faulted]]

Threw(jobName, e) == ThrewFor(jobName, e, {})

\* try { <population query throws> } catch (error) { logJobStatus(jobName,
\* 'failed', ...) }: the handler logs started, then failed, and returns.
QueryThrowsUnlogged(jobName) ==
    /\ jobLog' = Started(jobLog, jobName)
    /\ jobError' = Threw(jobName, "query")

QueryThrows(jobName) ==
    /\ jobLog' = logJobStatus(Started(jobLog, jobName), jobName, "failed")
    /\ jobError' = Threw(jobName, "query")

\* prisma.scheduledReminder.update({where: {scheduled_reminder_id}, data}):
\* the named fields are overwritten, every other field is kept.
\* An update whose where clause matches the row and every row after it.
UpdateReminderFrom(rs, id, data) ==
    [i \in DOMAIN rs |->
        IF i < id THEN rs[i]
        ELSE [k \in DOMAIN rs[i] |-> IF k \in DOMAIN data THEN data[k] ELSE rs[i][k]]]

UpdateReminder(rs, id, data) ==
    [rs EXCEPT ![id] = [k \in DOMAIN @ |-> IF k \in DOMAIN data THEN data[k] ELSE @[k]]]

\* A new ScheduledReminder row: the columns a create does not name take the
\* schema defaults (is_sent false, send_status/failure_reason/actual_send_time NULL).
NewReminder(h, t, type, prepared) ==
    [habit_id |-> h, user_id |-> HabitOwner(h), scheduled_time |-> t,
     reminder_type |-> type, is_sent |-> FALSE, is_prepared |-> prepared,
     actual_send_time |-> NULL, send_status |-> NULL, failure_reason |-> NULL]

\* reminderService.isHabitCompletedForDate(habitId, userId, date): a completed
\* HabitLog row of the habit dated on the calendar day of `date`.
isHabitCompletedForDate(h, u, t) ==
    \E l \in habitLog : l.habit_id = h /\ l.user_id = u /\ Day(l.completed_at) = Day(t)

\* createNotification(data): the Notification row is created, then the push is
\* sent; any error is caught and logged, and the function then returns undefined
\* (notification = 0).  createOk / pushOk: whether the two awaited calls succeed.
createNotificationPushAlways(ns, ps, data, createOk, pushOk) ==
    LET id == IF createOk THEN Len(ns) + 1 ELSE 0 IN
    [notifications |-> IF createOk THEN Append(ns, data) ELSE ns,
     pushLog |-> Append(ps, [user_id |-> data.user_id, notificationId |-> id,
                             ok |-> pushOk]),
     notification |-> IF createOk /\ pushOk THEN id ELSE 0]

\* A createNotification whose push error is swallowed on its own: the created
\* row is returned whether or not the push was delivered.
createNotificationPushSwallowed(ns, ps, data, createOk, pushOk) ==
    IF ~createOk
    THEN [notifications |-> ns, pushLog |-> ps, notification |-> 0]
    ELSE LET id == Len(ns) + 1 IN
         [notifications |-> Append(ns, data),
          pushLog |-> Append(ps, [user_id |-> data.user_id, notificationId |-> id,
                                  ok |-> pushOk]),
          notification |-> id]

createNotification(ns, ps, data, createOk, pushOk) ==
    IF ~createOk
    THEN [notifications |-> ns, pushLog |-> ps, notification |-> 0]
    ELSE LET id == Len(ns) + 1 IN
         [notifications |-> Append(ns, data),
          pushLog |-> Append(ps, [user_id |-> data.user_id, notificationId |-> id,
                                  ok |-> pushOk]),
          notification |-> IF pushOk THEN id ELSE 0]

\* --------------------------------------------------- process-reminders job
\* where: { scheduled_time: { lte: now }, is_sent: false, is_prepared: true }
DueWhereAnyState(r, t) == r.scheduled_time <= t /\ ~r.is_sent

DueWhere(r, t) == r.scheduled_time <= t /\ ~r.is_sent /\ r.is_prepared

\* findMany with include user {prefersNotifications, onVacation}: the due rows in
\* primary-key order, each with the owner's flags as read by the query.
DueQuery(t) ==
    LET ids == SelectSeq([i \in 1..Len(reminders) |-> i],
                         LAMBDA i : DueWhere(reminders[i], t))
    IN [k \in 1..Len(ids) |->
            [id |-> ids[k],
             prefersNotifications |-> users[reminders[ids[k]].user_id].prefersNotifications,
             onVacation |-> users[reminders[ids[k]].user_id].onVacation]]

\* if (!reminder.user.prefersNotifications || reminder.user.onVacation)
PreferenceSkipNoVacation(prefersNotifications, onVacation) == ~prefersNotifications

PreferenceSkip(prefersNotifications, onVacation) ==
    ~prefersNotifications \/ onVacation

\* if (isCompletedToday)
CompletedSkipNever(isCompletedToday) == FALSE

CompletedSkip(isCompletedToday) == isCompletedToday

\* The data of the three updates of the try block.
SkippedPreferenceData(t) ==
    [is_sent |-> TRUE, actual_send_time |-> t, send_status |-> "SKIPPED",
     failure_reason |-> ReasonPreference]

SkippedCompletedData(t) ==
    [is_sent |-> TRUE, actual_send_time |-> t, send_status |-> "SKIPPED",
     failure_reason |-> ReasonCompleted]

\* notification_id: notification.id is not a column of ScheduledReminder and the
\* created row has no field `id`, so the update writes these three fields.
SentData(t) ==
    [is_sent |-> TRUE, actual_send_time |-> t, send_status |-> "SENT"]

\* The try block of the loop body for row s under the faults f.  err is the
\* message of the error thrown (NULL if none); count is the counter incremented;
\* created is the number of Notification rows created.
TryReminderAt(s, f, t) ==
    LET r == reminders[s.id]
        thrown == [reminders |-> reminders, notifications |-> notifications,
                   pushLog |-> pushLog, err |-> StoreError, count |-> NULL,
                   created |-> 0]
    IN
    IF PreferenceSkip(s.prefersNotifications, s.onVacation)
    THEN IF "update" \in f THEN thrown
         ELSE [thrown EXCEPT
                 !.reminders = UpdateReminder(reminders, s.id, SkippedPreferenceData(t)),
                 !.err = NULL, !.count = "skipped"]
    ELSE IF "read" \in f THEN thrown
    ELSE IF CompletedSkip(isHabitCompletedForDate(r.habit_id, r.user_id, t))
    THEN IF "update" \in f THEN thrown
         ELSE [thrown EXCEPT
                 !.reminders = UpdateReminder(reminders, s.id, SkippedCompletedData(t)),
                 !.err = NULL, !.count = "skipped"]
    ELSE LET n == createNotification(notifications, pushLog,
                      [user_id |-> r.user_id, title |-> "Reminder", type |-> "REMINDER",
                       related_id |-> r.habit_id],
                      "create" \notin f, "push" \notin f)
             made == [thrown EXCEPT
                        !.notifications = n.notifications,
                        !.pushLog = n.pushLog,
                        !.created = Len(n.notifications) - Len(notifications)]
         IN IF n.notification = 0 THEN [made EXCEPT !.err = UndefinedIdError]
            ELSE IF "update" \in f THEN made
            ELSE [made EXCEPT
                    !.reminders = UpdateReminder(reminders, s.id, SentData(t)),
                    !.err = NULL, !.count = "sent"]

TryReminder(s, f) == TryReminderAt(s, f, dNow)

\* The catch block: prisma.scheduledReminder.update with send_status FAILED and
\* failure_reason error.message (is_sent is not part of the update).
MarkFailedReasonOnly(rs, id, message) ==
    UpdateReminder(rs, id, [failure_reason |-> message])

MarkFailed(rs, id, message) ==
    UpdateReminder(rs, id, [send_status |-> "FAILED", failure_reason |-> message])

NoResults == [processed |-> 0, sent |-> 0, skipped |-> 0, failed |-> 0]

\* Counters that leave failed rows out.
CountNoFailed(res, c) ==
    IF c = NULL \/ c = "failed" THEN res ELSE [res EXCEPT ![c] = @ + 1]

Count(res, c) == IF c = NULL THEN res ELSE [res EXCEPT ![c] = @ + 1]

\* The handler returns: its locals go out of scope.
DispatchReturn ==
    /\ dpc' = "idle"
    /\ dNow' = StartTime
    /\ dueReminders' = <<>>
    /\ results' = NoResults
    /\ raised' = {}
    /\ batch' = {}

\* logJobStatus(started); const now; the due query returns.
DispatchEntered ==
    /\ dpc = "idle"
    /\ runs < maxRuns
    /\ runs' = runs + 1
    /\ dpc' = "loop"
    /\ dNow' = now
    /\ dueReminders' = DueQuery(now)
    /\ batch' = {DueQuery(now)[k].id : k \in 1..Len(DueQuery(now))}
    /\ results' = [processed |-> Len(DueQuery(now)), sent |-> 0,
                   skipped |-> 0, failed |-> 0]
    /\ jobLog' = Started(jobLog, "process-reminders")
    /\ jobError' = Threw("process-reminders", "none")
    /\ UNCHANGED <<now, storeVars, maxRuns, maxRows, maxTime, rolloverVars, notifCount, raised,
                   overlap>>

\* logJobStatus(started); the due query throws, the job's outer catch logs failed.
DispatchQueryThrows ==
    /\ dpc = "idle"
    /\ runs < maxRuns
    /\ runs' = runs + 1
    /\ dpc' = "idle"
    /\ UNCHANGED <<dNow, dueReminders, results, batch>>
    /\ QueryThrows("process-reminders")
    /\ UNCHANGED <<now, storeVars, maxRuns, maxRows, maxTime, rolloverVars, notifCount, raised,
                   overlap>>

\* The handler is entered: the due query returns or throws.
DispatchStart ==
    \/ DispatchEntered
    \/ DispatchQueryThrows

\* One iteration of for (const reminder of dueReminders): try block, then the
\* catch block when it threw.  If the update in the catch block throws too, the
\* error leaves the loop and the outer catch logs failed.  faults: the calls
\* that may throw.
DispatchRowWith(faults) ==
    /\ dpc = "loop"
    /\ dueReminders # <<>>
    /\ \E f \in SUBSET faults :
        LET s == Head(dueReminders)
            t == TryReminder(s, f)
        IN
        /\ notifications' = t.notifications
        /\ pushLog' = t.pushLog
        /\ notifCount' = [notifCount EXCEPT ![s.id] = @ + t.created]
        /\ IF t.err = NULL
           THEN /\ reminders' = t.reminders
                /\ results' = Count(results, t.count)
                /\ dueReminders' = Tail(dueReminders)
                /\ UNCHANGED <<dpc, dNow, jobLog, jobError, raised, batch>>
           ELSE IF "mark" \notin f
           THEN /\ reminders' = MarkFailed(t.reminders, s.id, t.err)
                /\ results' = Count(results, "failed")
                /\ dueReminders' = Tail(dueReminders)
                /\ raised' = raised \cup {s.id}
                /\ UNCHANGED <<dpc, dNow, jobLog, jobError, batch>>
           ELSE /\ reminders' = t.reminders
                /\ jobLog' = logJobStatus(jobLog, "process-reminders", "failed")
                /\ jobError' = [jobError EXCEPT !["process-reminders"].error = "body"]
                /\ DispatchReturn
    /\ UNCHANGED <<now, users, quietUsers, habits, streaks, habitLog, runs, maxRuns,
                   maxRows, maxTime, rolloverVars, overlap>>

DispatchRow == DispatchRowWith(FaultPoints)

\* The loop body when the Data Store accepts every read and write: only the
\* push sink may fail.
DispatchRowStoreUp == DispatchRowWith({"push"})

\* After the loop: logJobStatus(completed, {processed, sent, skipped, failed}).
DispatchFinish ==
    /\ dpc = "loop"
    /\ dueReminders = <<>>
    /\ jobLog' = logJobStatus(jobLog, "process-reminders", "completed")
    /\ DispatchReturn
    /\ UNCHANGED <<now, storeVars, jobError, runs, maxRuns, maxRows, maxTime, rolloverVars,
                   notifCount, overlap>>

\* ------------------------------------- process-reminders, overlapping firing
\* cron.schedule registers the handler without a lock or a running flag: the
\* scheduler fires it at the next quarter hour whether or not the previous
\* invocation's promise has settled.  The locals of such an invocation.
NoOverlap == [pc |-> "idle", now |-> StartTime, dueReminders |-> <<>>,
              results |-> NoResults]

\* The handler is entered while the previous invocation is in its loop.
OverlapStart ==
    /\ dpc = "loop"
    /\ overlap.pc = "idle"
    /\ runs < maxRuns
    /\ runs' = runs + 1
    /\ \/ /\ overlap' = [pc |-> "loop", now |-> now, dueReminders |-> DueQuery(now),
                         results |-> [NoResults EXCEPT !.processed = Len(DueQuery(now))]]
          /\ jobLog' = logJobStatus(jobLog, "process-reminders", "started")
       \/ /\ overlap' = overlap
          /\ jobLog' = logJobStatus(logJobStatus(jobLog, "process-reminders", "started"),
                                    "process-reminders", "failed")
    /\ UNCHANGED <<now, storeVars, jobError, maxRuns, maxRows, maxTime, rolloverVars,
                   dpc, dNow, dueReminders, results, notifCount, raised, batch>>

\* One iteration of the loop of the overlapping invocation.
OverlapRow ==
    /\ overlap.pc = "loop"
    /\ overlap.dueReminders # <<>>
    /\ \E f \in SUBSET FaultPoints :
        LET s == Head(overlap.dueReminders)
            t == TryReminderAt(s, f, overlap.now)
        IN
        /\ notifications' = t.notifications
        /\ pushLog' = t.pushLog
        /\ notifCount' = [notifCount EXCEPT ![s.id] = @ + t.created]
        /\ IF t.err = NULL
           THEN /\ reminders' = t.reminders
                /\ overlap' = [overlap EXCEPT !.results = Count(@, t.count),
                                              !.dueReminders = Tail(@)]
                /\ jobLog' = jobLog
           ELSE IF "mark" \notin f
           THEN /\ reminders' = MarkFailed(t.reminders, s.id, t.err)
                /\ overlap' = [overlap EXCEPT !.results = Count(@, "failed"),
                                              !.dueReminders = Tail(@)]
                /\ jobLog' = jobLog
           ELSE /\ reminders' = t.reminders
                /\ jobLog' = logJobStatus(jobLog, "process-reminders", "failed")
                /\ overlap' = NoOverlap
    /\ UNCHANGED <<now, users, quietUsers, habits, streaks, habitLog, jobError, runs,
                   maxRuns, maxRows, maxTime, rolloverVars, dpc, dNow, dueReminders,
                   results, raised, batch>>

\* After the loop of the overlapping invocation.
OverlapFinish ==
    /\ overlap.pc = "loop"
    /\ overlap.dueReminders = <<>>
    /\ jobLog' = logJobStatus(jobLog, "process-reminders", "completed")
    /\ overlap' = NoOverlap
    /\ UNCHANGED <<now, storeVars, jobError, runs, maxRuns, maxRows, maxTime, rolloverVars,
                   dpc, dNow, dueReminders, results, notifCount, raised, batch>>

\* ----------------------------------------------------- schedule evaluator
\* JavaScript getDay() of day d: 0 Sunday .. 6 Saturday.
Weekday(d) == (d + FirstWeekday) % 7

\* reminderService.isHabitScheduledForDate(habit, date): the Calendar/Schedule
\* Evaluator for the daily, weekdays and weekends recurrence types.
isHabitScheduledForDate(habit, t) ==
    /\ habit.is_active
    /\ CASE habit.frequency_type = "DAILY" -> TRUE
         [] habit.frequency_type = "WEEKDAYS" -> Weekday(Day(t)) \in 1..5
         [] habit.frequency_type = "WEEKENDS" -> Weekday(Day(t)) \in {0, 6}

\* reminderService.isInQuietHours(userId, now)
isInQuietHours(u, t) == u \in quietUsers

\* prisma.habit.findMany({where: {is_active: true}}): the active habits in
\* primary-key order.
ActiveHabits ==
    SelectSeq([i \in 1..Cardinality(Habits) |-> i], LAMBDA h : habits[h].is_active)

ActiveSet == {h \in Habits : habits[h].is_active}

\* ---------------------------------------- streak-preservation-reminder job
\* What can go wrong in one iteration: an awaited read or write throws, the
\* Notification create throws, or the push throws.
ScanFaults == {"none", "throw", "create", "push"}

\* findFirst: a STREAK_PRESERVATION row of (habit, user) with scheduled_time >=
\* now - 2 hours.
RecentReminderUnsentOnly(rs, h, u, t) ==
    \E i \in DOMAIN rs :
        /\ rs[i].habit_id = h /\ rs[i].user_id = u
        /\ rs[i].reminder_type = "STREAK_PRESERVATION"
        /\ rs[i].scheduled_time >= t - PreservationWindowHours
        /\ ~rs[i].is_sent

RecentReminder(rs, h, u, t) ==
    \E i \in DOMAIN rs :
        /\ rs[i].habit_id = h /\ rs[i].user_id = u
        /\ rs[i].reminder_type = "STREAK_PRESERVATION"
        /\ rs[i].scheduled_time >= t - PreservationWindowHours

HighValueStreakInclusive(streak) == streak.current_streak >= PreservationThreshold

\* include: { streak: { where: { current_streak: { gt: 7 } } } }
HighValueStreak(streak) == streak.current_streak > PreservationThreshold

\* One iteration of for (const habit of highValueHabits).  acc carries the store
\* as written so far; thrown is set when an awaited call throws (the error then
\* leaves the loop).
PreserveHabit(acc, h, t, fault) ==
    LET u == HabitOwner(h) IN
    IF \/ ~HighValueStreak(streaks[h])
       \/ users[u].onVacation
       \/ ~users[u].prefersNotifications
    THEN acc
    ELSE IF fault = "throw" THEN [acc EXCEPT !.thrown = TRUE]
    ELSE IF ~isHabitScheduledForDate(habits[h], t) THEN acc
    ELSE IF ~(~isHabitCompletedForDate(h, u, t) /\ ~isInQuietHours(u, t)) THEN acc
    ELSE IF RecentReminder(acc.reminders, h, u, t) THEN acc
    ELSE LET n == createNotification(acc.notifications, acc.pushLog,
                      [user_id |-> u, title |-> "Urgent Habit Reminder",
                       type |-> "REMINDER", related_id |-> h],
                      fault # "create", fault # "push")
         IN [acc EXCEPT
               !.reminders = Append(@, NewReminder(h, t, "STREAK_PRESERVATION", TRUE)),
               !.notifications = n.notifications,
               !.pushLog = n.pushLog,
               !.created = @ + 1]

RECURSIVE PreserveFrom(_, _, _, _)
PreserveFrom(hs, acc, t, f) ==
    IF hs = <<>> \/ acc.thrown THEN acc
    ELSE PreserveFrom(Tail(hs), PreserveHabit(acc, Head(hs), t, f[Head(hs)]), t, f)

\* The whole handler: started; the habit query; the loop; completed, or failed
\* when the query or an awaited call of the loop threw.
StreakPreservation ==
    /\ runs < maxRuns
    /\ Len(reminders) < maxRows
    /\ runs' = runs + 1
    /\ \/ /\ QueryThrows("streak-preservation-reminder")
          /\ UNCHANGED <<reminders, notifications, pushLog>>
       \/ \E f \in [Habits -> ScanFaults] :
            LET acc == PreserveFrom(ActiveHabits,
                           [reminders |-> reminders, notifications |-> notifications,
                            pushLog |-> pushLog, created |-> 0, thrown |-> FALSE],
                           now, f)
            IN /\ reminders' = acc.reminders
               /\ notifications' = acc.notifications
               /\ pushLog' = acc.pushLog
               /\ jobLog' = logJobStatus(Started(jobLog, "streak-preservation-reminder"),
                                "streak-preservation-reminder",
                                IF acc.thrown THEN "failed" ELSE "completed")
               /\ jobError' = Threw("streak-preservation-reminder",
                                    IF acc.thrown THEN "body" ELSE "none")
    /\ UNCHANGED <<now, users, quietUsers, habits, streaks, habitLog, maxRuns, maxRows, maxTime,
                   rolloverVars, dispatchVars>>

\* ----------------------------------------------------------- streak engine
Milestones == {7, 14, 21, 30, 60, 90, 100, 180, 365}

\* if (streak.current_streak > 0 && milestones.includes(streak.current_streak))
AtMilestone(streak) == streak.current_streak > 0 /\ streak.current_streak \in Milestones

Max(a, b) == IF a >= b THEN a ELSE b

Min(a, b) == IF a <= b THEN a ELSE b

\* dayFacts: what happened on the settled day.  graceOpen: the grace window
\* (last_completed + grace_period_hours) has not elapsed at settlement time.
DayFacts ==
    [wasScheduled : BOOLEAN, wasCompleted : BOOLEAN, wasSkipped : BOOLEAN,
     userOnVacation : BOOLEAN, graceOpen : BOOLEAN]

NoFacts ==
    [wasScheduled |-> FALSE, wasCompleted |-> FALSE, wasSkipped |-> FALSE,
     userOnVacation |-> FALSE, graceOpen |-> FALSE]

\* The record of one settlement: the event, the previous_streak snapshot, the
\* dayFacts it was given; done = FALSE: the habit was not settled.
NoSettlement == [event |-> "NONE", previous_streak |-> 0, facts |-> NoFacts, done |-> FALSE]

Settlement(out, facts) ==
    [event |-> out.event, previous_streak |-> out.previous_streak,
     facts |-> facts, done |-> TRUE]

\* Rows 1 and 2 of the table: the day does not count for this habit.
DayExcludedUnlessCompleted(habit, facts) ==
    ~facts.wasCompleted
    /\ (~facts.wasScheduled \/ (facts.userOnVacation /\ habit.skip_on_vacation))

DayExcluded(habit, facts) ==
    ~facts.wasScheduled \/ (facts.userOnVacation /\ habit.skip_on_vacation)

\* Row 3: the new HabitStreak after a completed day.
CompletedStreakLongestKept(streak, day) ==
    [streak EXCEPT !.current_streak = @ + 1,
                   !.last_completed = <<day>>,
                   !.grace_period_used = FALSE]

CompletedStreakNotCounted(streak, day) ==
    [streak EXCEPT !.last_completed = <<day>>,
                   !.grace_period_used = FALSE]

CompletedStreak(streak, day) ==
    [streak EXCEPT !.current_streak = @ + 1,
                   !.longest_streak = Max(@, streak.current_streak + 1),
                   !.last_completed = <<day>>,
                   !.grace_period_used = FALSE]

\* Row 4: grace period enabled, window open, grace not already used.
GraceAppliesRepeatedly(streak, habit, facts) ==
    habit.grace_period_enabled /\ facts.graceOpen

GraceApplies(streak, habit, facts) ==
    habit.grace_period_enabled /\ facts.graceOpen /\ ~streak.grace_period_used

\* Row 5: the new HabitStreak after a reset.
ResetStreakDecrements(streak) ==
    [streak EXCEPT !.current_streak = Max(0, @ - 1),
                   !.missed_days_count = @ + 1,
                   !.last_reset_reason = "MISSED_COMPLETION"]

ResetStreak(streak) ==
    [streak EXCEPT !.current_streak = 0,
                   !.missed_days_count = @ + 1,
                   !.last_reset_reason = "MISSED_COMPLETION"]

\* STREAK_RESET is only emitted if previous_streak > 0.
ResetEventAlways(previous) == "STREAK_RESET"

ResetEvent(previous) == IF previous > 0 THEN "STREAK_RESET" ELSE "NONE"

\* settleDay(streak, habit, dayFacts) -> (newStreak, event): the transition
\* table of the Streak Engine, first match wins.
settleDay(streak, habit, facts, day) ==
    IF DayExcluded(habit, facts)
    THEN [streak |-> streak, event |-> "NONE", previous_streak |-> 0]
    ELSE IF facts.wasCompleted
    THEN [streak |-> CompletedStreak(streak, day),
          event |-> IF streak.current_streak + 1 \in Milestones
                    THEN "MILESTONE" ELSE "NONE",
          previous_streak |-> 0]
    ELSE IF GraceApplies(streak, habit, facts)
    THEN [streak |-> [streak EXCEPT !.grace_period_used = TRUE],
          event |-> "GRACE_PERIOD_USED", previous_streak |-> 0]
    ELSE [streak |-> ResetStreak(streak),
          event |-> ResetEvent(streak.current_streak),
          previous_streak |-> streak.current_streak]

\* ------------------------------------------------- daily-streak-update job
\* The facts of habit h on the day that began at hour t, read from the store;
\* graceOpen is passed in.
FactsOf(h, t, graceOpen) ==
    [wasScheduled |-> isHabitScheduledForDate(habits[h], t),
     wasCompleted |-> isHabitCompletedForDate(h, HabitOwner(h), t),
     wasSkipped |-> FALSE,
     userOnVacation |-> users[HabitOwner(h)].onVacation,
     graceOpen |-> graceOpen]

\* streakController.processDailyStreakUpdates(): settleDay for the active habits
\* with yesterday's facts.  k <= all: a Data Store call threw after k habits
\* were settled (k = 0: the population query threw).  '0 0 * * *': one
\* invocation a day.
DailyStreakUpdate ==
    /\ runs < maxRuns
    /\ rolledDay < Day(now)
    /\ rolledDay' = Day(now)
    /\ runs' = runs + 1
    /\ \E k \in 0..(Len(ActiveHabits) + 1), grace \in [ActiveSet -> BOOLEAN] :
         LET done == {ActiveHabits[i] : i \in 1..Min(k, Len(ActiveHabits))}
             yesterday == Day(now) - 1
             out == [h \in ActiveSet |->
                        settleDay(streaks[h], habits[h],
                                  FactsOf(h, yesterday * HoursPerDay, grace[h]),
                                  yesterday)]
         IN /\ streaks' = [h \in Habits |-> IF h \in done THEN out[h].streak
                                            ELSE streaks[h]]
            /\ settled' = [h \in Habits |->
                             IF h \in done
                             THEN Settlement(out[h], FactsOf(h, yesterday * HoursPerDay,
                                                             grace[h]))
                             ELSE NoSettlement]
            /\ attained' = [h \in Habits |->
                              IF h \in done /\ out[h].event = "MILESTONE"
                              THEN attained[h] + 1 ELSE attained[h]]
            /\ jobLog' = logJobStatus(Started(jobLog, "daily-streak-update"),
                             "daily-streak-update",
                             IF k > Len(ActiveHabits) THEN "completed" ELSE "failed")
            /\ jobError' = Threw("daily-streak-update",
                                 IF k > Len(ActiveHabits) THEN "none"
                                 ELSE IF k = 0 THEN "query" ELSE "body")
    /\ UNCHANGED <<now, users, quietUsers, habits, habitLog, reminders, notifications,
                   pushLog, maxRuns, maxRows, maxTime, scannedDay, dispatchVars>>

\* ---------------------------------------------- streak-milestone-check job
\* One iteration of for (const habit of habitsWithStreaks).
MilestoneHabit(acc, h, fault) ==
    IF ~users[HabitOwner(h)].prefersNotifications THEN acc
    ELSE IF ~AtMilestone(streaks[h]) THEN acc
    ELSE LET n == createNotification(acc.notifications, acc.pushLog,
                      [user_id |-> HabitOwner(h), title |-> "Day Streak!",
                       type |-> "STREAK_MILESTONE",
                       related_id |-> h],
                      fault # "create", fault # "push")
         IN [acc EXCEPT !.notifications = n.notifications,
                        !.pushLog = n.pushLog,
                        !.created = @ + 1]

RECURSIVE MilestoneFrom(_, _, _)
MilestoneFrom(hs, acc, f) ==
    IF hs = <<>> THEN acc
    ELSE MilestoneFrom(Tail(hs), MilestoneHabit(acc, Head(hs), f[Head(hs)]), f)

\* The whole handler: started; the habit query; the loop; completed, or failed
\* when the query threw (createNotification never throws).  '5 0 * * *': one
\* invocation a day.
StreakMilestoneCheck ==
    /\ runs < maxRuns
    /\ scannedDay < Day(now)
    /\ scannedDay' = Day(now)
    /\ runs' = runs + 1
    /\ \/ /\ QueryThrows("streak-milestone-check")
          /\ UNCHANGED <<notifications, pushLog>>
       \/ \E f \in [Habits -> {"none", "create", "push"}] :
            LET acc == MilestoneFrom(ActiveHabits,
                           [notifications |-> notifications, pushLog |-> pushLog,
                            created |-> 0], f)
            IN /\ notifications' = acc.notifications
               /\ pushLog' = acc.pushLog
               /\ jobLog' = logJobStatus(Started(jobLog, "streak-milestone-check"),
                                         "streak-milestone-check", "completed")
               /\ jobError' = Threw("streak-milestone-check", "none")
    /\ UNCHANGED <<now, users, quietUsers, habits, streaks, habitLog, reminders,
                   maxRuns, maxRows, maxTime, settled, attained, rolledDay, dispatchVars>>

\* ------------------------------------------------ streak-warning-check job
\* What can go wrong in one iteration: an awaited read of the loop throws; the
\* Notification create, the push or the ScheduledReminder create throws.
WarningFaults == {"throw", "create", "push", "row"}

\* include: { streak: { where: { current_streak: { gt: 2 } } } }
AtRiskStreak(streak) == streak.current_streak > WarningThreshold

\* createStreakWarningNotification(userId, habitName, currentStreak, habitId):
\* the notification, then, before 8 PM, a STREAK_WARNING row for 8 PM today.
\* Every error is caught inside the function.
createStreakWarningNotification(acc, u, h, t, f) ==
    LET n == createNotification(acc.notifications, acc.pushLog,
                 [user_id |-> u, title |-> "Streak at Risk!",
                  type |-> "STREAK_MILESTONE", related_id |-> h],
                 "create" \notin f, "push" \notin f)
        reminderTime == Day(t) * HoursPerDay + WarningHour
    IN [acc EXCEPT
          !.notifications = n.notifications,
          !.pushLog = n.pushLog,
          !.reminders = IF t < reminderTime /\ "row" \notin f
                        THEN Append(@, NewReminder(h, reminderTime, "STREAK_WARNING", TRUE))
                        ELSE @]

\* One iteration of for (const habit of habitsAtRisk).
WarnHabit(acc, h, t, f) ==
    LET u == HabitOwner(h) IN
    IF ~AtRiskStreak(streaks[h]) \/ users[u].onVacation THEN acc
    ELSE IF "throw" \in f THEN [acc EXCEPT !.thrown = TRUE]
    ELSE IF ~isHabitScheduledForDate(habits[h], t) THEN acc
    ELSE IF isHabitCompletedForDate(h, u, t) THEN acc
    ELSE [createStreakWarningNotification(acc, u, h, t, f) EXCEPT !.created = @ + 1]

RECURSIVE WarnFrom(_, _, _, _)
WarnFrom(hs, acc, t, f) ==
    IF hs = <<>> \/ acc.thrown THEN acc
    ELSE WarnFrom(Tail(hs), WarnHabit(acc, Head(hs), t, f[Head(hs)]), t, f)

\* The whole handler: started; the habit query; the loop; completed, or failed
\* when the query or an awaited read of the loop threw.
StreakWarningCheck ==
    /\ runs < maxRuns
    /\ Len(reminders) < maxRows
    /\ runs' = runs + 1
    /\ \/ /\ QueryThrows("streak-warning-check")
          /\ UNCHANGED <<reminders, notifications, pushLog>>
       \/ \E f \in [Habits -> SUBSET WarningFaults] :
            LET acc == WarnFrom(ActiveHabits,
                           [reminders |-> reminders, notifications |-> notifications,
                            pushLog |-> pushLog, created |-> 0, thrown |-> FALSE],
                           now, f)
            IN /\ reminders' = acc.reminders
               /\ notifications' = acc.notifications
               /\ pushLog' = acc.pushLog
               /\ jobLog' = logJobStatus(Started(jobLog, "streak-warning-check"),
                                "streak-warning-check",
                                IF acc.thrown THEN "failed" ELSE "completed")
               /\ jobError' = Threw("streak-warning-check",
                                    IF acc.thrown THEN "body" ELSE "none")
    /\ UNCHANGED <<now, users, quietUsers, habits, streaks, habitLog, maxRuns, maxRows,
                   maxTime, rolloverVars, dispatchVars>>

\* ------------------------------------------ prepare-next-day-reminders job
\* The dedup key of the Reminder Scheduler: a row of (habit_id, user_id,
\* reminder_type) on calendar day d.
AlreadyPreparedNever(rs, h, u, type, d) == FALSE

AlreadyPrepared(rs, h, u, type, d) ==
    \E i \in DOMAIN rs :
        /\ rs[i].habit_id = h /\ rs[i].user_id = u
        /\ rs[i].reminder_type = type
        /\ Day(rs[i].scheduled_time) = d

\* One habit of prepareNextDay(allActiveHabits, now): a standard reminder for
\* tomorrow at the reminder hour, prepared and unsent, unless the owner has
\* notifications off, the habit is not scheduled tomorrow, or the key exists.
PrepareHabit(rs, h, t) ==
    LET u == HabitOwner(h)
        tomorrow == Day(t) + 1
    IN IF ~users[u].prefersNotifications THEN rs
       ELSE IF ~isHabitScheduledForDate(habits[h], tomorrow * HoursPerDay) THEN rs
       ELSE IF AlreadyPrepared(rs, h, u, "STANDARD", tomorrow) THEN rs
       ELSE Append(rs, NewReminder(h, tomorrow * HoursPerDay + ReminderHour,
                                   "STANDARD", TRUE))

\* reminderService.prepareRemindersForNextDay() over the habits hs.
RECURSIVE prepareRemindersForNextDay(_, _, _)
prepareRemindersForNextDay(hs, rs, t) ==
    IF hs = <<>> THEN rs
    ELSE prepareRemindersForNextDay(Tail(hs), PrepareHabit(rs, Head(hs), t), t)

\* The whole handler.  k <= all: a Data Store call threw after k habits were
\* prepared (k = 0: the population query threw).
PrepareNextDayReminders ==
    /\ runs < maxRuns
    /\ Len(reminders) < maxRows
    /\ runs' = runs + 1
    /\ \E k \in 0..(Len(ActiveHabits) + 1) :
         /\ reminders' = prepareRemindersForNextDay(
                             SubSeq(ActiveHabits, 1, Min(k, Len(ActiveHabits))),
                             reminders, now)
         /\ jobLog' = logJobStatus(Started(jobLog, "prepare-next-day-reminders"),
                          "prepare-next-day-reminders",
                          IF k > Len(ActiveHabits) THEN "completed" ELSE "failed")
         /\ jobError' = Threw("prepare-next-day-reminders",
                              IF k > Len(ActiveHabits) THEN "none"
                              ELSE IF k = 0 THEN "query" ELSE "body")
    /\ UNCHANGED <<now, users, quietUsers, habits, streaks, habitLog, notifications,
                   pushLog, maxRuns, maxRows, maxTime, rolloverVars, dispatchVars>>

\* ------------------------------------------------- weekly-habit-review job
\* The users in primary-key order.
\* The rows of the User table, by user_id.
UserSeq == [i \in 1..Cardinality(DOMAIN users) |-> i]

\* where: { prefersNotifications: true, onVacation: false }
ActiveUsers ==
    SelectSeq(UserSeq, LAMBDA u : users[u].prefersNotifications /\ ~users[u].onVacation)

\* One iteration of for (const user of activeUsers): the try block reads the
\* week's completions and creates the summary; a throwing read is caught here.
ReviewUser(acc, u, fault) ==
    IF fault = "read" THEN acc
    ELSE LET n == createNotification(acc.notifications, acc.pushLog,
                      [user_id |-> u, title |-> "Weekly Summary",
                       type |-> "SYSTEM_MESSAGE", related_id |-> NULL],
                      fault # "create", fault # "push")
         IN [acc EXCEPT !.notifications = n.notifications,
                        !.pushLog = n.pushLog,
                        !.created = @ + 1]

\* for (const user of activeUsers) without the try block of the loop body.
RECURSIVE ReviewFromUntilError(_, _, _)
ReviewFromUntilError(us, acc, f) ==
    IF us = <<>> \/ f[Head(us)] # "none" THEN acc
    ELSE ReviewFromUntilError(Tail(us), ReviewUser(acc, Head(us), f[Head(us)]), f)

RECURSIVE ReviewFrom(_, _, _)
ReviewFrom(us, acc, f) ==
    IF us = <<>> THEN acc
    ELSE ReviewFrom(Tail(us), ReviewUser(acc, Head(us), f[Head(us)]), f)

\* The whole handler: only the user query can reach the outer catch.
WeeklyHabitReview ==
    /\ runs < maxRuns
    /\ runs' = runs + 1
    /\ \/ /\ QueryThrows("weekly-habit-review")
          /\ UNCHANGED <<notifications, pushLog>>
       \/ \E f \in [DOMAIN users -> {"none", "read", "create", "push"}] :
            LET acc == ReviewFrom(ActiveUsers,
                           [notifications |-> notifications, pushLog |-> pushLog,
                            created |-> 0], f)
            IN /\ notifications' = acc.notifications
               /\ pushLog' = acc.pushLog
               /\ jobLog' = logJobStatus(Started(jobLog, "weekly-habit-review"),
                                         "weekly-habit-review", "completed")
               /\ jobError' = ThrewFor("weekly-habit-review", "none",
                                       {ActiveUsers[i] : i \in 1..Len(ActiveUsers)}
                                       \cap {u \in DOMAIN users : f[u] # "none"})
    /\ UNCHANGED <<now, users, quietUsers, habits, streaks, habitLog, reminders,
                   maxRuns, maxRows, maxTime, rolloverVars, dispatchVars>>

\* ---------------------------------------------------- daily-goal-check job
\* where: { prefersNotifications: true, onVacation: false, dailyGoal: { gt: 0 } }
GoalUsers ==
    SelectSeq(UserSeq, LAMBDA u : /\ users[u].prefersNotifications
                                  /\ ~users[u].onVacation
                                  /\ users[u].dailyGoal > 0)

CompletedCountEver(u, t) ==
    Cardinality({l \in habitLog : l.user_id = u})

\* prisma.habitLog.count of the user's completed logs of the day of t.
CompletedCount(u, t) ==
    Cardinality({l \in habitLog : l.user_id = u /\ Day(l.completed_at) = Day(t)})

\* The loop body with a query for an existing goal notification of the user.
GoalUserOnce(acc, u, t, fault) ==
    IF fault = "throw" THEN [acc EXCEPT !.thrown = TRUE, !.faulted = @ \cup {u}]
    ELSE IF ~(CompletedCount(u, t) >= users[u].dailyGoal) THEN acc
    ELSE IF \E i \in 1..Len(acc.notifications) :
               /\ acc.notifications[i].user_id = u
               /\ acc.notifications[i].title = "Daily Goal Achieved!"
    THEN acc
    ELSE LET n == createNotification(acc.notifications, acc.pushLog,
                      [user_id |-> u, title |-> "Daily Goal Achieved!",
                       type |-> "ACHIEVEMENT_UNLOCKED", related_id |-> NULL],
                      fault # "create", fault # "push")
         IN [acc EXCEPT !.notifications = n.notifications,
                        !.pushLog = n.pushLog,
                        !.created = @ + 1,
                        !.faulted = IF fault = "none" THEN @ ELSE @ \cup {u}]

\* One iteration of for (const user of users); the count is not in a try block.
GoalUser(acc, u, t, fault) ==
    IF fault = "throw" THEN [acc EXCEPT !.thrown = TRUE, !.faulted = @ \cup {u}]
    ELSE IF ~(CompletedCount(u, t) >= users[u].dailyGoal) THEN acc
    ELSE LET n == createNotification(acc.notifications, acc.pushLog,
                      [user_id |-> u, title |-> "Daily Goal Achieved!",
                       type |-> "ACHIEVEMENT_UNLOCKED", related_id |-> NULL],
                      fault # "create", fault # "push")
         IN [acc EXCEPT !.notifications = n.notifications,
                        !.pushLog = n.pushLog,
                        !.created = @ + 1,
                        !.faulted = IF fault = "none" THEN @ ELSE @ \cup {u}]

RECURSIVE GoalFrom(_, _, _, _)
GoalFrom(us, acc, t, f) ==
    IF us = <<>> \/ acc.thrown THEN acc
    ELSE GoalFrom(Tail(us), GoalUser(acc, Head(us), t, f[Head(us)]), t, f)

DailyGoalCheck ==
    /\ runs < maxRuns
    /\ runs' = runs + 1
    /\ \/ /\ QueryThrows("daily-goal-check")
          /\ UNCHANGED <<notifications, pushLog>>
       \/ \E f \in [DOMAIN users -> ScanFaults] :
            LET acc == GoalFrom(GoalUsers,
                           [notifications |-> notifications, pushLog |-> pushLog,
                            created |-> 0, thrown |-> FALSE, faulted |-> {}], now, f)
            IN /\ notifications' = acc.notifications
               /\ pushLog' = acc.pushLog
               /\ jobLog' = logJobStatus(Started(jobLog, "daily-goal-check"),
                                "daily-goal-check",
                                IF acc.thrown THEN "failed" ELSE "completed")
               /\ jobError' = ThrewFor("daily-goal-check",
                                       IF acc.thrown THEN "body" ELSE "none",
                                       acc.faulted)
    /\ UNCHANGED <<now, users, quietUsers, habits, streaks, habitLog, reminders,
                   maxRuns, maxRows, maxTime, rolloverVars, dispatchVars>>

\* ---------------------------------------------------- new-user-welcome job
\* notifications: { none: { type: 'SYSTEM_MESSAGE', title: { contains: 'Welcome' } } }
Welcomed(ns, u) ==
    \E i \in DOMAIN ns : /\ ns[i].user_id = u
                         /\ ns[i].type = "SYSTEM_MESSAGE"
                         /\ ns[i].title = "Welcome to HabitPulse!"

\* registeredAt: { gte: thirtyMinutesAgo }, in half hours.
NewUsers(t) ==
    SelectSeq(UserSeq, LAMBDA u : /\ 2 * users[u].registeredAt >= 2 * t - 1
                                  /\ ~Welcomed(notifications, u))

WelcomeUser(acc, u, fault) ==
    LET n == createNotification(acc.notifications, acc.pushLog,
                 [user_id |-> u, title |-> "Welcome to HabitPulse!",
                  type |-> "SYSTEM_MESSAGE", related_id |-> NULL],
                 fault # "create", fault # "push")
    IN [acc EXCEPT !.notifications = n.notifications,
                   !.pushLog = n.pushLog,
                   !.created = @ + 1]

RECURSIVE WelcomeFrom(_, _, _)
WelcomeFrom(us, acc, f) ==
    IF us = <<>> THEN acc
    ELSE WelcomeFrom(Tail(us), WelcomeUser(acc, Head(us), f[Head(us)]), f)

NewUserWelcome ==
    /\ runs < maxRuns
    /\ runs' = runs + 1
    /\ \/ /\ QueryThrows("new-user-welcome")
          /\ UNCHANGED <<notifications, pushLog>>
       \/ \E f \in [DOMAIN users -> {"none", "create", "push"}] :
            LET acc == WelcomeFrom(NewUsers(now),
                           [notifications |-> notifications, pushLog |-> pushLog,
                            created |-> 0], f)
            IN /\ notifications' = acc.notifications
               /\ pushLog' = acc.pushLog
               /\ jobLog' = logJobStatus(Started(jobLog, "new-user-welcome"),
                                         "new-user-welcome", "completed")
               /\ jobError' = Threw("new-user-welcome", "none")
    /\ UNCHANGED <<now, users, quietUsers, habits, streaks, habitLog, reminders,
                   maxRuns, maxRows, maxTime, rolloverVars, dispatchVars>>

\* ------------------------------------------------------------- environment
Tick ==
    /\ now < maxTime
    /\ now' = now + 1
    /\ UNCHANGED <<storeVars, jobVars, rolloverVars, dispatchVars>>

\* A day passes.
TickDay ==
    /\ now + HoursPerDay <= maxTime
    /\ now' = now + HoursPerDay
    /\ UNCHANGED <<storeVars, jobVars, rolloverVars, dispatchVars>>

\* A user changes prefersNotifications or onVacation (User columns).
UpdateUser ==
    /\ \E u \in DOMAIN users, p \in BOOLEAN, v \in BOOLEAN :
          /\ <<users[u].prefersNotifications, users[u].onVacation>> # <<p, v>>
          /\ users' = [users EXCEPT ![u].prefersNotifications = p,
                                    ![u].onVacation = v]
    /\ UNCHANGED <<now, quietUsers, habits, streaks, habitLog, reminders,
                   notifications, pushLog, jobVars, rolloverVars, dispatchVars>>

\* A user completes a habit: one HabitLog row, completed_at = now.
LogCompletion ==
    /\ Cardinality(habitLog) < MaxLogs
    /\ \E h \in ReminderHabits :
          habitLog' = habitLog \cup
              {[habit_id |-> h, user_id |-> HabitOwner(h), completed_at |-> now]}
    /\ habitLog' # habitLog
    /\ UNCHANGED <<now, users, quietUsers, habits, streaks, reminders,
                   notifications, pushLog, jobVars, rolloverVars, dispatchVars>>

\* A user's configured quiet-hours window begins or ends.
QuietHours ==
    /\ \E q \in SUBSET DOMAIN users :
          /\ q # quietUsers
          /\ quietUsers' = q
    /\ UNCHANGED <<now, users, habits, streaks, habitLog, reminders,
                   notifications, pushLog, jobVars, rolloverVars, dispatchVars>>

\* The Reminder Scheduler writes a ScheduledReminder row for now or the next hour.
InsertReminder ==
    /\ Len(reminders) < maxRows
    /\ \E h \in ReminderHabits, t \in {now, now + 1}, prepared \in BOOLEAN :
          reminders' = Append(reminders, NewReminder(h, t, "STANDARD", prepared))
    /\ UNCHANGED <<now, users, quietUsers, habits, streaks, habitLog,
                   notifications, pushLog, jobVars, rolloverVars, dispatchVars>>

\* ------------------------------------------------------------ specification
\* A fresh store: schema defaults for User and Habit rows, no reminders, no
\* notifications, no job running.
InitStore ==
    /\ users = [u \in Users |-> NewUser(now)]
    /\ quietUsers = {}
    /\ habitLog = {}
    /\ reminders = <<>>
    /\ notifications = <<>>
    /\ pushLog = <<>>

InitJobs ==
    /\ jobLog = [j \in Jobs |-> <<>>]
    /\ jobError = [j \in Jobs |-> [run |-> 0, error |-> "none", faulted |-> {}]]
    /\ runs = 0
    /\ settled = [h \in Habits |-> NoSettlement]
    /\ rolledDay = Day(now) - 1
    /\ scannedDay = Day(now) - 1
    /\ attained = [h \in Habits |-> IF AtMilestone(streaks[h]) THEN 1 ELSE 0]
    /\ dpc = "idle"
    /\ dNow = StartTime
    /\ dueReminders = <<>>
    /\ results = NoResults
    /\ notifCount = [i \in 1..(maxRows + Cardinality(Habits)) |-> 0]
    /\ raised = {}
    /\ batch = {}
    /\ overlap = NoOverlap

Init ==
    /\ now = StartTime
    /\ maxRuns = MaxRuns
    /\ maxRows = MaxReminders
    /\ maxTime = MaxTime
    /\ habits = [h \in Habits |-> NewHabit]
    /\ streaks = [h \in Habits |-> NewStreak]
    /\ InitStore
    /\ InitJobs

Next ==
    \/ DispatchStart
    \/ DispatchRow
    \/ DispatchFinish
    \/ Tick
    \/ UpdateUser
    \/ LogCompletion
    \/ InsertReminder

Spec == Init /\ [][Next]_vars

\* One dispatch invocation over one row, with the environment of Spec.
InitRow ==
    /\ now = StartTime
    /\ maxRuns = RowRuns
    /\ maxRows = RowRows
    /\ maxTime = MaxTime
    /\ habits = [h \in Habits |-> NewHabit]
    /\ streaks = [h \in Habits |-> NewStreak]
    /\ InitStore
    /\ InitJobs

SpecRow == InitRow /\ [][Next]_vars

\* The preservation scan and the dispatch of its rows.  Habit 1 has a high-value
\* streak; the streak of habit 2 is exactly at the threshold.
InitScan ==
    /\ now = ScanStartTime
    /\ maxRuns = ScanRuns
    /\ maxRows = ScanRows
    /\ maxTime = MaxTime
    /\ habits = [h \in Habits |-> NewHabit]
    /\ streaks = [h \in Habits |->
                    [NewStreak EXCEPT
                       !.current_streak = IF h = 1 THEN PreservationThreshold + 1
                                          ELSE PreservationThreshold,
                       !.longest_streak = PreservationThreshold + 1]]
    /\ InitStore
    /\ InitJobs

NextScan ==
    \/ StreakPreservation
    \/ DispatchStart
    \/ DispatchRow
    \/ DispatchFinish
    \/ Tick
    \/ LogCompletion

SpecScan == InitScan /\ [][NextScan]_vars

\* The daily rollover and the milestone scan.  Habit 1 starts one completion
\* short of the first milestone.
InitMilestone ==
    /\ now = StartTime
    /\ maxRuns = MilestoneRuns
    /\ maxRows = MaxReminders
    /\ maxTime = MilestoneMaxTime
    /\ \E sv \in BOOLEAN, ft \in {"DAILY", "WEEKDAYS"} :
         habits = [h \in Habits |-> [NewHabit EXCEPT !.is_active = (h = 1),
                                                    !.frequency_type = ft,
                                                    !.skip_on_vacation = sv]]
    /\ streaks = [h \in Habits |->
                    [NewStreak EXCEPT
                       !.current_streak = IF h = 1 THEN MilestoneStart ELSE 0,
                       !.longest_streak = IF h = 1 THEN MilestoneStart ELSE 0]]
    /\ InitStore
    /\ InitJobs

NextMilestone ==
    \/ DailyStreakUpdate
    \/ StreakMilestoneCheck
    \/ LogCompletion
    \/ UpdateUser
    \/ TickDay

SpecMilestone == InitMilestone /\ [][NextMilestone]_vars

\* All nine jobs over one store with one active habit, which is past the
\* warning and the preservation thresholds.
InitJobsRun ==
    /\ now = JobsStartTime
    /\ maxRuns = JobsRuns
    /\ maxRows = JobsRows
    /\ maxTime = JobsStartTime
    /\ habits = [h \in Habits |-> [NewHabit EXCEPT !.is_active = (h = 1)]]
    /\ streaks = [h \in Habits |->
                    [NewStreak EXCEPT
                       !.current_streak = PreservationThreshold + 1,
                       !.longest_streak = PreservationThreshold + 1]]
    /\ InitStore
    /\ InitJobs

NextJobs ==
    \/ DailyStreakUpdate
    \/ StreakMilestoneCheck
    \/ StreakWarningCheck
    \/ DispatchStart
    \/ DispatchRow
    \/ DispatchFinish
    \/ StreakPreservation
    \/ PrepareNextDayReminders
    \/ WeeklyHabitReview
    \/ DailyGoalCheck
    \/ NewUserWelcome
    \/ LogCompletion

SpecJobs == InitJobsRun /\ [][NextJobs]_vars

\* Next-day preparation.  The habits cover the three recurrence types.
InitPrepare ==
    /\ now = StartTime
    /\ maxRuns = PrepareRuns
    /\ maxRows = PrepareRows
    /\ maxTime = PrepareMaxTime
    /\ habits \in [Habits -> [is_active : BOOLEAN,
                              frequency_type : {"DAILY", "WEEKDAYS", "WEEKENDS"},
                              skip_on_vacation : {FALSE},
                              grace_period_enabled : {TRUE}]]
    /\ streaks = [h \in Habits |-> NewStreak]
    /\ InitStore
    /\ InitJobs

NextPrepare ==
    \/ PrepareNextDayReminders
    \/ Tick
    \/ UpdateUser

SpecPrepare == InitPrepare /\ [][NextPrepare]_vars

\* ------------------------------------------- Streak Engine specification
\* One settlement: settleDay for an active habit and yesterday, with any
\* dayFacts; the new HabitStreak row is persisted.
Settle ==
    /\ runs < maxRuns
    /\ runs' = runs + 1
    /\ \E h \in ActiveSet, facts \in DayFacts :
         LET out == settleDay(streaks[h], habits[h], facts, Day(now) - 1)
         IN /\ streaks' = [streaks EXCEPT ![h] = out.streak]
            /\ settled' = [x \in Habits |-> IF x = h THEN Settlement(out, facts)
                                            ELSE NoSettlement]
            /\ attained' = [attained EXCEPT
                              ![h] = IF out.event = "MILESTONE" THEN @ + 1 ELSE @]
    /\ UNCHANGED <<now, users, quietUsers, habits, habitLog, reminders, notifications,
                   pushLog, jobLog, jobError, maxRuns, maxRows, maxTime, rolledDay,
                   scannedDay, dispatchVars>>

InitSettle ==
    /\ now = StartTime
    /\ maxRuns = SettleRuns
    /\ maxRows = MaxReminders
    /\ maxTime = SettleMaxTime
    /\ \E sv \in BOOLEAN, ge \in BOOLEAN :
         habits = [h \in Habits |-> [NewHabit EXCEPT !.is_active = (h = 1),
                                                    !.skip_on_vacation = sv,
                                                    !.grace_period_enabled = ge]]
    /\ \E c \in 0..SettleStreak : \E l \in c..SettleStreak :
         streaks = [h \in Habits |->
                      [NewStreak EXCEPT
                         !.current_streak = IF h = 1 THEN c ELSE 0,
                         !.longest_streak = IF h = 1 THEN l ELSE 0]]
    /\ InitStore
    /\ InitJobs

NextSettle ==
    \/ Settle
    \/ TickDay

SpecSettle == InitSettle /\ [][NextSettle]_vars

\* ---------------------------------- digest and daily-goal specification
DigestUsers == {1, 2}

InitDigest ==
    /\ now = StartTime
    /\ maxRuns = DigestRuns
    /\ maxRows = MaxReminders
    /\ maxTime = DigestMaxTime
    /\ habits = [h \in Habits |-> NewHabit]
    /\ streaks = [h \in Habits |-> NewStreak]
    /\ users \in [DigestUsers -> [prefersNotifications : BOOLEAN, onVacation : BOOLEAN,
                                  dailyGoal : {0, DailyGoal}, registeredAt : {0}]]
    /\ quietUsers = {}
    /\ habitLog = {}
    /\ reminders = <<>>
    /\ notifications = <<>>
    /\ pushLog = <<>>
    /\ InitJobs

NextDigest ==
    \/ WeeklyHabitReview
    \/ DailyGoalCheck
    \/ LogCompletion
    \/ TickDay

SpecDigest == InitDigest /\ [][NextDigest]_vars

\* ------------------------------------------- warning-scan specification
InitWarning ==
    /\ now = WarnStartTime
    /\ maxRuns = WarnRuns
    /\ maxRows = WarnRows
    /\ maxTime = WarnMaxTime
    /\ habits = [h \in Habits |-> [NewHabit EXCEPT !.is_active = (h = 1)]]
    /\ streaks = [h \in Habits |->
                    [NewStreak EXCEPT
                       !.current_streak = WarningThreshold + 1,
                       !.longest_streak = WarningThreshold + 1]]
    /\ InitStore
    /\ InitJobs

NextWarning ==
    \/ StreakWarningCheck
    \/ LogCompletion
    \/ UpdateUser
    \/ Tick

SpecWarning == InitWarning /\ [][NextWarning]_vars

\* --------------------------------------------- at-risk scans specification
\* One habit at either threshold or just above it, active or not, with any of
\* three recurrence types; the owner's flags, quiet hours and completions vary.
InitAtRisk ==
    /\ now = WarnStartTime
    /\ maxRuns = AtRiskRuns
    /\ maxRows = AtRiskRows
    /\ maxTime = WarnStartTime
    /\ \E a \in BOOLEAN, ft \in {"DAILY", "WEEKDAYS", "WEEKENDS"} :
         habits = [h \in Habits |-> [NewHabit EXCEPT !.is_active = (h = 1 /\ a),
                                                    !.frequency_type = ft]]
    /\ \E c \in {WarningThreshold, WarningThreshold + 1,
                  PreservationThreshold, PreservationThreshold + 1} :
         streaks = [h \in Habits |-> [NewStreak EXCEPT !.current_streak = c,
                                                      !.longest_streak = c]]
    /\ InitStore
    /\ InitJobs

NextAtRisk ==
    \/ StreakWarningCheck
    \/ StreakPreservation
    \/ UpdateUser
    \/ QuietHours
    \/ LogCompletion

SpecAtRisk == InitAtRisk /\ [][NextAtRisk]_vars

\* --------------------------------------- overlapping-dispatch specification
InitOverlap ==
    /\ now = StartTime
    /\ maxRuns = OverlapRuns
    /\ maxRows = OverlapRows
    /\ maxTime = StartTime
    /\ habits = [h \in Habits |-> NewHabit]
    /\ streaks = [h \in Habits |-> NewStreak]
    /\ InitStore
    /\ InitJobs

NextOverlap ==
    \/ DispatchStart
    \/ DispatchRow
    \/ DispatchFinish
    \/ OverlapStart
    \/ OverlapRow
    \/ OverlapFinish
    \/ InsertReminder
    \/ UpdateUser

SpecOverlap == InitOverlap /\ [][NextOverlap]_vars

\* ------------------------------------------------ due-query specification
InitDue ==
    /\ now = StartTime
    /\ maxRuns = DueRuns
    /\ maxRows = DueRows
    /\ maxTime = StartTime
    /\ habits = [h \in Habits |-> NewHabit]
    /\ streaks = [h \in Habits |-> NewStreak]
    /\ InitStore
    /\ InitJobs

NextDue ==
    \/ DispatchStart
    \/ DispatchRow
    \/ DispatchFinish
    \/ InsertReminder

SpecDue == InitDue /\ [][NextDue]_vars

\* ------------------------------------------ dispatch liveness specification
\* The dispatch job keeps firing (weak fairness of its steps) and the Data
\* Store accepts every read and write; the push sink may fail.
InitLive ==
    /\ now = StartTime
    /\ maxRuns = LiveRuns
    /\ maxRows = LiveRows
    /\ maxTime = MaxTime
    /\ habits = [h \in Habits |-> NewHabit]
    /\ streaks = [h \in Habits |-> NewStreak]
    /\ InitStore
    /\ InitJobs

NextLive ==
    \/ DispatchEntered
    \/ DispatchRowStoreUp
    \/ DispatchFinish
    \/ InsertReminder
    \/ UpdateUser
    \/ LogCompletion
    \/ Tick

SpecLive ==
    /\ InitLive
    /\ [][NextLive]_vars
    /\ WF_vars(DispatchEntered)
    /\ WF_vars(DispatchRowStoreUp)
    /\ WF_vars(DispatchFinish)

\* ------------------------------------------------------------------ claims
Last(q) == q[Len(q)]

Terminal(r) == r.send_status \in {"SENT", "SKIPPED", "FAILED"}

\* A step of the dispatch loop body on the head of dueReminders.
RowStep == dpc = "loop" /\ dueReminders # <<>> /\ dueReminders' # dueReminders

\* The loop body's error left the loop: the job's outer catch logged failed.
Aborted == dpc' = "idle"

\* The Data Store rejected a read or write of the loop body for row i: the row
\* ends FAILED with the store's error message.
Rejected(i) ==
    /\ reminders'[i].send_status = "FAILED"
    /\ reminders'[i].failure_reason = StoreError

\* C1: once dispatch has given a row a terminal outcome (SENT, SKIPPED or FAILED),
\* no later step changes any field of that row.
C1_TerminalRowNeverChanges ==
    [][\A i \in DOMAIN reminders :
          Terminal(reminders[i]) => reminders'[i] = reminders[i]]_vars

\* C2: dispatch creates at most one Notification row per ScheduledReminder, over
\* any number of invocations.
C2_AtMostOneNotificationPerReminder ==
    \A i \in DOMAIN notifCount : notifCount[i] <= 1

\* C3: an invocation that entered the loop ends only after every row of the batch
\* was processed, with a completed log, and every row whose processing raised an
\* error is marked FAILED with the error's message.
C3_RowFailureIsolated ==
    [][(dpc = "loop" /\ dpc' = "idle") =>
          /\ dueReminders = <<>>
          /\ jobLog'["process-reminders"] = <<"started", "completed">>
          /\ \A i \in raised : /\ reminders'[i].send_status = "FAILED"
                               /\ reminders'[i].failure_reason # NULL]_vars

\* C4: a due row whose owner (as read by the due query) has notifications
\* disabled or is on vacation gets no Notification and no push; unless the Data
\* Store rejects the update, it is marked SKIPPED with is_sent = TRUE and the
\* preference reason (also when the habit is completed today), and only the
\* skipped counter is incremented.
C4_PreferenceSkip ==
    [][LET s == Head(dueReminders) IN
       (RowStep /\ (~s.prefersNotifications \/ s.onVacation)) =>
          /\ notifications' = notifications
          /\ pushLog' = pushLog
          /\ notifCount' = notifCount
          /\ \/ Aborted
             \/ Rejected(s.id)
             \/ /\ reminders'[s.id].send_status = "SKIPPED"
                /\ reminders'[s.id].is_sent
                /\ reminders'[s.id].failure_reason = ReasonPreference
                /\ results' = [results EXCEPT !.skipped = @ + 1]]_vars

C4_Witness ==
    \E i \in DOMAIN reminders :
        /\ reminders[i].send_status = "SKIPPED"
        /\ reminders[i].failure_reason = ReasonPreference
        /\ reminders[i].is_sent
        /\ isHabitCompletedForDate(reminders[i].habit_id, reminders[i].user_id,
                                   reminders[i].actual_send_time)
        /\ notifCount[i] = 0

\* C5: a due row whose owner allows notifications and is not on vacation and whose
\* habit has a completion dated today gets no Notification and no push; unless
\* the Data Store rejects the read or the update, it is marked SKIPPED with
\* reason "Already completed", skipped is incremented and sent is not.
C5_CompletedSkip ==
    [][LET s == Head(dueReminders)
           r == reminders[s.id]
       IN
       (/\ RowStep
        /\ s.prefersNotifications /\ ~s.onVacation
        /\ isHabitCompletedForDate(r.habit_id, r.user_id, dNow)) =>
          /\ notifications' = notifications
          /\ pushLog' = pushLog
          /\ notifCount' = notifCount
          /\ \/ Aborted
             \/ Rejected(s.id)
             \/ /\ reminders'[s.id].send_status = "SKIPPED"
                /\ reminders'[s.id].is_sent
                /\ reminders'[s.id].failure_reason = ReasonCompleted
                /\ results'.sent = results.sent
                /\ results'.skipped = results.skipped + 1]_vars

C5_Witness ==
    \E i \in DOMAIN reminders :
        /\ reminders[i].send_status = "SKIPPED"
        /\ reminders[i].failure_reason = ReasonCompleted
        /\ users[reminders[i].user_id].prefersNotifications
        /\ ~users[reminders[i].user_id].onVacation
        /\ notifCount[i] = 0

\* C6: for every (habit, user), any two STREAK_PRESERVATION rows have
\* scheduled_time at least 2 hours apart, whatever was dispatched in between.
C6_PreservationRateLimit ==
    \A i, j \in DOMAIN reminders :
        (/\ i < j
         /\ reminders[i].reminder_type = "STREAK_PRESERVATION"
         /\ reminders[j].reminder_type = "STREAK_PRESERVATION"
         /\ reminders[i].habit_id = reminders[j].habit_id
         /\ reminders[i].user_id = reminders[j].user_id)
        => reminders[j].scheduled_time - reminders[i].scheduled_time
             >= PreservationWindowHours

\* Two preservation rows of one habit exist, the first already dispatched.
C6_Witness ==
    \E i, j \in DOMAIN reminders :
        /\ i < j
        /\ reminders[i].reminder_type = "STREAK_PRESERVATION"
        /\ reminders[j].reminder_type = "STREAK_PRESERVATION"
        /\ reminders[i].habit_id = reminders[j].habit_id
        /\ reminders[i].is_sent

\* Notification rows of the milestone scan for habit h.
MilestoneNotifications(ns, h) ==
    Cardinality({i \in DOMAIN ns : /\ ns[i].type = "STREAK_MILESTONE"
                                    /\ ns[i].title = "Day Streak!"
                                    /\ ns[i].related_id = h})

\* C7: a habit never holds more milestone notifications than the number of
\* times a rollover moved its current_streak onto a milestone value; a streak
\* that stays at the value over several scans gets no further notification.
C7_MilestoneOncePerAttainment ==
    \A h \in Habits : MilestoneNotifications(notifications, h) <= attained[h]

\* The job whose handler this step invoked.
Invoked(j) == runs' = runs + 1 /\ jobError'[j].run = runs'

\* C8: the log of every job's latest invocation is 'started' followed by exactly
\* one terminal record, which is 'completed' exactly when no error reached the
\* job's outer catch; only a dispatch still in its loop has 'started' alone.
C8_JobLifecycleLog ==
    \A j \in Jobs :
        \/ jobLog[j] = <<>> /\ jobError[j].run = 0
        \/ /\ j = "process-reminders" /\ dpc = "loop"
           /\ jobLog[j] = <<"started">>
           /\ jobError[j].error = "none"
        \/ /\ ~(j = "process-reminders" /\ dpc = "loop")
           /\ jobLog[j] = <<"started", IF jobError[j].error = "none"
                                       THEN "completed" ELSE "failed">>

C8_Witness ==
    /\ jobLog["process-reminders"] = <<"started", "failed">>
    /\ jobError["process-reminders"].error = "body"
    /\ \E j \in Jobs : jobLog[j] = <<"started", "completed">>

\* C9: an invocation whose population query throws logs 'failed', returns (the
\* dispatch is idle again), writes nothing to the store and leaves the logs of
\* the other jobs alone; any error that reaches a job's outer catch ends with
\* 'failed' and a returned handler (a failing dispatch is idle again, any other
\* failing job leaves a running dispatch untouched).
C9_JobFailureIsolated ==
    [][\A j \in Jobs :
          /\ (Invoked(j) /\ jobError'[j].error = "query")
             => /\ storeVars' = storeVars
                /\ jobLog'[j] = <<"started", "failed">>
                /\ \A i \in Jobs \ {j} : jobLog'[i] = jobLog[i]
          /\ (jobError'[j] # jobError[j] /\ jobError'[j].error # "none")
             => /\ Last(jobLog'[j]) = "failed"
                /\ IF j = "process-reminders" THEN dpc' = "idle"
                   ELSE dispatchVars' = dispatchVars]_vars

C9_Witness ==
    \E j1, j2 \in Jobs :
        /\ jobError[j1].error = "query"
        /\ jobError[j2].run > jobError[j1].run
        /\ jobError[j2].error = "none"
        /\ jobLog[j2] = <<"started", "completed">>

\* Two rows of the same dedup key that are both prepared and unsent.
DuplicatePrepared(rs) ==
    \E i, j \in DOMAIN rs :
        /\ i < j
        /\ rs[i].habit_id = rs[j].habit_id /\ rs[i].user_id = rs[j].user_id
        /\ rs[i].reminder_type = rs[j].reminder_type
        /\ Day(rs[i].scheduled_time) = Day(rs[j].scheduled_time)
        /\ rs[i].is_prepared /\ ~rs[i].is_sent
        /\ rs[j].is_prepared /\ ~rs[j].is_sent

\* C10: after a completed prepareNextDay, a second call on the same state
\* creates no row, and no dedup key has two prepared-but-unsent rows.
C10_PrepareIdempotent ==
    [][(Invoked("prepare-next-day-reminders")
          /\ jobError'["prepare-next-day-reminders"].error = "none")
       => /\ prepareRemindersForNextDay(ActiveHabits, reminders', now) = reminders'
          /\ ~DuplicatePrepared(reminders')]_vars

\* Two invocations at the same hour, the second one completed, rows prepared.
C10_Witness ==
    /\ now = StartTime
    /\ jobError["prepare-next-day-reminders"].run = 2
    /\ jobError["prepare-next-day-reminders"].error = "none"
    /\ Len(reminders) >= 1
    /\ \A i \in DOMAIN reminders : reminders[i].is_prepared

\* Steps of the Streak Engine specification: habit h was settled in this step.
SettledStep(h) == runs' = runs + 1 /\ settled'[h].done

\* C11: for every HabitStreak row longest_streak >= current_streak >= 0 at
\* all times, and longest_streak never decreases.
C11_StreakInvariant ==
    /\ [](\A h \in Habits : /\ streaks[h].longest_streak >= streaks[h].current_streak
                            /\ streaks[h].current_streak >= 0)
    /\ [][\A h \in Habits :
            streaks'[h].longest_streak >= streaks[h].longest_streak]_vars

\* A completed day was settled and raised longest_streak above every initial value.
C11_Witness ==
    \E h \in Habits : /\ settled[h].done
                      /\ settled[h].facts.wasCompleted
                      /\ streaks[h].longest_streak > SettleStreak
                      /\ streaks[h].longest_streak = streaks[h].current_streak

\* The step settled a completed day of habit h and moved the streak as row 3 says.
CompletedCounts(h) ==
    /\ streaks'[h].current_streak = streaks[h].current_streak + 1
    /\ streaks'[h].longest_streak >= streaks'[h].current_streak

\* C12 as stated: after settleDay with wasCompleted = true the new
\* current_streak is the old one plus one and longest_streak >= current_streak,
\* whatever wasScheduled, userOnVacation and skip_on_vacation are.
C12_CompletedAlwaysCounts ==
    [][\A h \in Habits :
         (SettledStep(h) /\ settled'[h].facts.wasCompleted) => CompletedCounts(h)]_vars

\* C12 amended: after settleDay with wasCompleted = true on a day that was
\* scheduled and is not a vacation day of a habit with skip_on_vacation, the
\* new current_streak is the old one plus one and longest_streak >=
\* current_streak.
C12_CompletedCounts ==
    [][\A h \in Habits :
         (/\ SettledStep(h)
          /\ settled'[h].facts.wasCompleted
          /\ settled'[h].facts.wasScheduled
          /\ ~(settled'[h].facts.userOnVacation /\ habits[h].skip_on_vacation))
         => CompletedCounts(h)]_vars

\* A completed, scheduled day of a user on vacation was settled for a habit
\* without skip_on_vacation and the streak moved.
C12_Witness ==
    \E h \in Habits : /\ settled[h].done
                      /\ settled[h].facts.wasCompleted
                      /\ settled[h].facts.wasScheduled
                      /\ settled[h].facts.userOnVacation
                      /\ ~habits[h].skip_on_vacation
                      /\ streaks[h].current_streak >= 1
                      /\ streaks[h].last_completed = <<Day(now) - 1>>

\* C13: in every sequence of settleDay transitions current_streak never
\* decreases except by a reset step that sets it to exactly 0 and records
\* last_reset_reason.
C13_OnlyResetLowersStreak ==
    [][\A h \in Habits :
         streaks'[h].current_streak < streaks[h].current_streak
         => /\ streaks'[h].current_streak = 0
            /\ streaks'[h].last_reset_reason = "MISSED_COMPLETION"
            /\ settled'[h].event = "STREAK_RESET"
            /\ ~settled'[h].facts.wasCompleted]_vars

\* A streak of at least one day was reset.
C13_Witness ==
    \E h \in Habits : /\ settled[h].event = "STREAK_RESET"
                      /\ settled[h].previous_streak >= 1
                      /\ streaks[h].current_streak = 0
                      /\ streaks[h].last_reset_reason = "MISSED_COMPLETION"

\* The step settled a scheduled, not completed, not vacation-excluded day of h.
MissedStep(h) ==
    /\ SettledStep(h)
    /\ settled'[h].facts.wasScheduled
    /\ ~settled'[h].facts.wasCompleted
    /\ ~(settled'[h].facts.userOnVacation /\ habits[h].skip_on_vacation)

\* Grace period enabled and the grace window not elapsed in the step.
GraceOpenStep(h) ==
    habits[h].grace_period_enabled /\ settled'[h].facts.graceOpen

C15_Reset ==
    [][\A h \in Habits :
         (MissedStep(h) /\ ~(GraceOpenStep(h) /\ ~streaks[h].grace_period_used))
         => /\ streaks'[h].current_streak = 0
            /\ settled'[h].previous_streak = streaks[h].current_streak
            /\ streaks'[h].missed_days_count = streaks[h].missed_days_count + 1
            /\ streaks'[h].last_reset_reason = "MISSED_COMPLETION"
            /\ streaks'[h].longest_streak = streaks[h].longest_streak
            /\ (settled'[h].event = "STREAK_RESET") = (streaks[h].current_streak > 0)
            /\ settled'[h].event \in {"STREAK_RESET", "NONE"}]_vars

\* A second missed day in a row was settled: the streak was already 0 and no
\* event was emitted.
C15_Witness ==
    \E h \in Habits : /\ settled[h].done
                      /\ settled[h].facts.wasScheduled
                      /\ ~settled[h].facts.wasCompleted
                      /\ settled[h].previous_streak = 0
                      /\ settled[h].event = "NONE"
                      /\ streaks[h].missed_days_count = 2
                      /\ streaks[h].longest_streak >= 1

\* C16: when the habit is not scheduled that day, or the user is on vacation
\* and habit.skip_on_vacation is true, settleDay returns every HabitStreak
\* field unchanged and emits no event, whether or not the day was completed.
C16_ExcludedDayFramePreserving ==
    [][\A h \in Habits :
         (/\ SettledStep(h)
          /\ \/ ~settled'[h].facts.wasScheduled
             \/ (settled'[h].facts.userOnVacation /\ habits[h].skip_on_vacation))
         => /\ streaks'[h] = streaks[h]
            /\ settled'[h].event = "NONE"
            /\ settled'[h].previous_streak = 0]_vars

\* A completed vacation day of a habit with skip_on_vacation was settled and
\* the streak row still has no completion date.
C16_Witness ==
    \E h \in Habits : /\ settled[h].done
                      /\ settled[h].facts.wasCompleted
                      /\ settled[h].facts.wasScheduled
                      /\ settled[h].facts.userOnVacation
                      /\ habits[h].skip_on_vacation
                      /\ streaks[h].last_completed = <<>>
                      /\ streaks[h].longest_streak >= 1

\* The notifications of user u with the given title.
Titled(ns, u, title) ==
    Cardinality({i \in 1..Len(ns) : ns[i].user_id = u /\ ns[i].title = title})

Eligible(u) == users[u].prefersNotifications /\ ~users[u].onVacation

\* C17: in one invocation of the weekly digest exactly one summary
\* notification is created for each user with notifications enabled and not on
\* vacation whose own digest met no error, at most one for one that did, and
\* none for any other user: an error in one user's digest does not keep the
\* remaining eligible users from theirs.
C17_WeeklyDigestPerUser ==
    [][(Invoked("weekly-habit-review") /\ jobError'["weekly-habit-review"].error = "none")
       => \A u \in DOMAIN users :
            LET new == Titled(notifications', u, "Weekly Summary")
                       - Titled(notifications, u, "Weekly Summary")
            IN /\ new \in {0, 1}
               /\ ~Eligible(u) => new = 0
               /\ (Eligible(u) /\ u \notin jobError'["weekly-habit-review"].faulted)
                  => new = 1]_vars

\* One invocation: the digest of user 1 met an error and user 2 has a summary.
C17_Witness ==
    /\ runs = 1
    /\ jobError["weekly-habit-review"].run = 1
    /\ jobError["weekly-habit-review"].faulted = {1}
    /\ Titled(notifications, 1, "Weekly Summary") = 0
    /\ Titled(notifications, 2, "Weekly Summary") = 1

\* prefersNotifications, not on vacation, dailyGoal > 0 and today's completed
\* HabitLog rows (midnight inclusive to next midnight exclusive) >= dailyGoal.
GoalAchieved(u) ==
    /\ Eligible(u)
    /\ users[u].dailyGoal > 0
    /\ Cardinality({l \in habitLog :
                      /\ l.user_id = u
                      /\ l.completed_at >= Day(now) * HoursPerDay
                      /\ l.completed_at < (Day(now) + 1) * HoursPerDay})
          >= users[u].dailyGoal

\* C18: in one invocation of the daily-goal scan a goal-achieved notification
\* is created for a user only if the user has notifications enabled, is not on
\* vacation, has dailyGoal > 0 and today's completed count >= dailyGoal, at
\* most one each, and exactly one for each such user when the invocation
\* completes and the user's own notification met no error.
C18_DailyGoalNotification ==
    [][Invoked("daily-goal-check")
       => \A u \in DOMAIN users :
            LET new == Titled(notifications', u, "Daily Goal Achieved!")
                       - Titled(notifications, u, "Daily Goal Achieved!")
            IN /\ new \in {0, 1}
               /\ new = 1 => GoalAchieved(u)
               /\ (/\ GoalAchieved(u)
                   /\ jobError'["daily-goal-check"].error = "none"
                   /\ u \notin jobError'["daily-goal-check"].faulted)
                  => new = 1]_vars

\* One invocation on the second day: user 1 completed a habit today and was
\* notified, user 2 has a goal and was not.
C18_Witness ==
    /\ runs = 1
    /\ jobError["daily-goal-check"].run = 1
    /\ jobError["daily-goal-check"].error = "none"
    /\ Titled(notifications, 1, "Daily Goal Achieved!") = 1
    /\ Titled(notifications, 2, "Daily Goal Achieved!") = 0
    /\ Eligible(2) /\ users[2].dailyGoal > 0
    /\ now > StartTime

\* C19: every Notification row is paired with a push-delivery attempt: the
\* i-th push attempt is made for the i-th row created, to that row's user, and
\* there is no push attempt without a row (none when row creation failed).
C19_NotificationPairedWithPush ==
    /\ Len(pushLog) = Len(notifications)
    /\ \A i \in 1..Len(pushLog) :
          /\ pushLog[i].notificationId = i
          /\ pushLog[i].user_id = notifications[i].user_id

\* After a row was created and pushed, the daily-goal scan met an error on the
\* row of a user who reached the goal and the row was not created.
C19_Witness ==
    /\ jobError["daily-goal-check"].run = runs
    /\ jobError["daily-goal-check"].error = "none"
    /\ jobError["daily-goal-check"].faulted = {1}
    /\ Titled(notifications, 1, "Daily Goal Achieved!") = 0
    /\ Len(notifications) >= 1
    /\ Len(pushLog) = Len(notifications)

\* C20: after any number of at-risk warning scan invocations, a repeated
\* invocation on the same calendar day included, no two STREAK_WARNING
\* ScheduledReminder rows of the same (habit, user) have scheduled_time on the
\* same calendar date.
C20_NoDuplicateWarning ==
    ~\E i, j \in DOMAIN reminders :
        /\ i < j
        /\ reminders[i].reminder_type = "STREAK_WARNING"
        /\ reminders[j].reminder_type = "STREAK_WARNING"
        /\ reminders[i].habit_id = reminders[j].habit_id
        /\ reminders[i].user_id = reminders[j].user_id
        /\ Day(reminders[i].scheduled_time) = Day(reminders[j].scheduled_time)

\* The notifications with the given title about habit h.
TitledFor(ns, h, title) ==
    Cardinality({i \in 1..Len(ns) : ns[i].title = title /\ ns[i].related_id = h})

\* The ScheduledReminder rows of the given type for habit h.
TypedFor(rs, h, type) ==
    Cardinality({i \in 1..Len(rs) : rs[i].reminder_type = type /\ rs[i].habit_id = h})

\* Habit h is active, its streak is above the threshold, it is scheduled today
\* and not completed today, and its owner is not on vacation.
AtRisk(h, threshold) ==
    /\ habits[h].is_active
    /\ streaks[h].current_streak > threshold
    /\ isHabitScheduledForDate(habits[h], now)
    /\ ~isHabitCompletedForDate(h, HabitOwner(h), now)
    /\ ~users[HabitOwner(h)].onVacation

\* C21: the at-risk warning scan emits a warning notification or reminder for
\* a habit only if at scan time the habit is active, current_streak > 2, it is
\* scheduled today, not completed today, the owner is not on vacation and the
\* owner is not inside a quiet-hours window.
C21_WarningOnlyWhenAtRisk ==
    [][Invoked("streak-warning-check")
       => \A h \in Habits :
            (\/ TitledFor(notifications', h, "Streak at Risk!")
                  > TitledFor(notifications, h, "Streak at Risk!")
             \/ TypedFor(reminders', h, "STREAK_WARNING")
                  > TypedFor(reminders, h, "STREAK_WARNING"))
            => /\ AtRisk(h, 2)
               /\ HabitOwner(h) \notin quietUsers]_vars

\* C22: the streak-preservation scan creates a STREAK_PRESERVATION reminder or
\* its urgent notification for a habit only if at scan time the habit is
\* active, current_streak > 7, it is scheduled today, not completed today, the
\* owner is not on vacation, has notifications enabled and is not in quiet
\* hours.
C22_PreservationOnlyWhenAtRisk ==
    [][Invoked("streak-preservation-reminder")
       => \A h \in Habits :
            (\/ TitledFor(notifications', h, "Urgent Habit Reminder")
                  > TitledFor(notifications, h, "Urgent Habit Reminder")
             \/ TypedFor(reminders', h, "STREAK_PRESERVATION")
                  > TypedFor(reminders, h, "STREAK_PRESERVATION"))
            => /\ AtRisk(h, 7)
               /\ users[HabitOwner(h)].prefersNotifications
               /\ HabitOwner(h) \notin quietUsers]_vars

\* The preservation scan created a reminder and its notification for habit 1.
C22_Witness ==
    /\ jobError["streak-preservation-reminder"].run = runs
    /\ runs > 0
    /\ TypedFor(reminders, 1, "STREAK_PRESERVATION") = 1
    /\ TitledFor(notifications, 1, "Urgent Habit Reminder") = 1
    /\ streaks[1].current_streak = PreservationThreshold + 1

C24_NoSelfOverlap == ~(dpc = "loop" /\ overlap.pc = "loop")

\* C25: the daily-goal scan is not idempotent within a day: an invocation for
\* a user who already has a goal-achieved notification and whose completed
\* count of today is still >= dailyGoal creates another one (unless the
\* invocation fails or the creation of the row does).
C25_DailyGoalRepeats ==
    [][(/\ Invoked("daily-goal-check")
        /\ jobError'["daily-goal-check"].error = "none")
       => \A u \in DOMAIN users :
            (/\ Titled(notifications, u, "Daily Goal Achieved!") >= 1
             /\ GoalAchieved(u)
             /\ u \notin jobError'["daily-goal-check"].faulted)
            => Titled(notifications', u, "Daily Goal Achieved!")
               = Titled(notifications, u, "Daily Goal Achieved!") + 1]_vars

\* Two invocations on the first day, both after the completion of user 1: two
\* goal-achieved notifications.
C25_Witness ==
    /\ now = StartTime
    /\ runs = 2
    /\ jobError["daily-goal-check"].run = 2
    /\ Titled(notifications, 1, "Daily Goal Achieved!") = 2
    /\ Len(notifications) = 2

\* C26: a dispatch invocation with timestamp now reads only reminders that at
\* query time have scheduled_time <= now, is_sent = false and is_prepared =
\* true, and creates a Notification or changes a row only for a reminder it
\* read; every other reminder is left unchanged by that invocation.
C26_OnlyDuePreparedUnsent ==
    [][/\ (dpc = "idle" /\ dpc' = "loop")
          => \A i \in batch' : /\ reminders[i].scheduled_time <= now
                                /\ reminders[i].is_sent = FALSE
                                /\ reminders[i].is_prepared = TRUE
       /\ \A i \in DOMAIN reminders :
             (reminders'[i] # reminders[i] \/ notifCount'[i] # notifCount[i])
             => (dpc = "loop" /\ i \in batch)]_vars

\* An invocation has finished its one due row while a sent row, an unprepared
\* row or a row scheduled later stands unchanged beside it.
C26_Witness ==
    /\ dpc = "loop"
    /\ dueReminders = <<>>
    /\ Cardinality(batch) = 1
    /\ \E i \in batch : Terminal(reminders[i])
    /\ \E i \in DOMAIN reminders :
          /\ i \notin batch
          /\ \/ ~reminders[i].is_prepared
             \/ reminders[i].scheduled_time > dNow
             \/ reminders[i].send_status = "SENT"

\* Row i is prepared, unsent and its scheduled_time has passed.
Due(i) ==
    /\ i \in DOMAIN reminders
    /\ reminders[i].is_prepared
    /\ ~reminders[i].is_sent
    /\ reminders[i].scheduled_time <= now

\* C27: while the dispatch job keeps firing and the Data Store accepts reads
\* and writes, every prepared, unsent reminder whose scheduled_time has passed
\* is eventually given a terminal send_status; the first invocation that
\* starts at or after its scheduled_time reads it, and that invocation ends
\* with a terminal send_status on every row it read.
C27_DueReminderDispatched ==
    /\ \A i \in 1..LiveRows :
          (Due(i) /\ (runs < maxRuns \/ (dpc = "loop" /\ i \in batch)))
          ~> (i \in DOMAIN reminders /\ Terminal(reminders[i]))
    /\ [][(dpc = "idle" /\ dpc' = "loop")
            => batch' = {i \in DOMAIN reminders : Due(i)}]_vars
    /\ [][(dpc = "loop" /\ dpc' = "idle")
            => \A i \in batch : Terminal(reminders'[i])]_vars

\* A row scheduled for the next hour was read by the invocation that started
\* after the clock reached it, and has its outcome.
C27_Witness ==
    /\ \E i \in DOMAIN reminders :
          /\ reminders[i].scheduled_time = StartTime + 1
          /\ i \in batch
          /\ Terminal(reminders[i])
    /\ dpc = "loop"
    /\ dNow = StartTime + 1

\* Row i is marked SENT by this step.
MarkedSent(i) ==
    /\ reminders[i].send_status # "SENT"
    /\ reminders'[i].send_status = "SENT"

\* This step created one Notification row for the owner of row i and its push
\* was delivered.
Delivered(i) ==
    /\ Len(notifications') = Len(notifications) + 1
    /\ Last(notifications').type = "REMINDER"
    /\ Last(notifications').user_id = reminders[i].user_id
    /\ Len(pushLog') = Len(pushLog) + 1
    /\ Last(pushLog').ok
    /\ Last(pushLog').notificationId = Len(notifications')

\* C28: a reminder is marked SENT only by a step of the invocation that also
\* created its Notification row and whose push did not raise; the sent counter
\* is incremented only by such a step, by one.
C28_SentImpliesDelivered ==
    [][/\ \A i \in DOMAIN reminders : MarkedSent(i) => Delivered(i)
       /\ (dpc = "loop" /\ dpc' = "loop" /\ results'.sent # results.sent)
            => /\ results'.sent = results.sent + 1
               /\ \E i \in DOMAIN reminders : MarkedSent(i) /\ Delivered(i)]_vars

\* One row of the invocation was delivered and counted; the push of another
\* raised and that row is FAILED, not counted as sent.
C28_Witness ==
    /\ dpc = "loop"
    /\ results.sent = 1
    /\ results.failed = 1
    /\ \E i, j \in DOMAIN reminders :
          /\ reminders[i].send_status = "SENT"
          /\ reminders[j].send_status = "FAILED"
          /\ reminders[j].failure_reason = UndefinedIdError
    /\ \E k \in DOMAIN pushLog : ~pushLog[k].ok

\* Row i was written by the preservation scan and the scan's urgent
\* notification for its habit was created.
UrgentlyNotified(i) ==
    /\ reminders[i].reminder_type = "STREAK_PRESERVATION"
    /\ \E k \in DOMAIN notifications :
          /\ notifications[k].title = "Urgent Habit Reminder"
          /\ notifications[k].related_id = reminders[i].habit_id

\* C29: a STREAK_PRESERVATION row whose urgent notification the scan has sent
\* is not delivered again by a later dispatch invocation: no dispatch step
\* creates a Notification row for it.
C29_SingleDelivery ==
    [][\A i \in DOMAIN reminders :
          UrgentlyNotified(i) => notifCount'[i] = notifCount[i]]_vars

\* The send_status each counter of results stands for.
StatusOf == [sent |-> "SENT", skipped |-> "SKIPPED", failed |-> "FAILED"]

\* The rows read by the running invocation that carry status st.
MarkedWith(st) == {i \in batch : reminders[i].send_status = st}

\* C30: when a dispatch invocation logs completed, processed is the number of
\* due reminders read at its start and equals sent + skipped + failed, and each
\* counter is the number of rows the invocation marked with that status; every
\* loop step increments exactly the counter of the status it wrote to its row.
C30_ResultAccounting ==
    /\ [][(dpc = "idle" /\ dpc' = "loop")
            => /\ results'.processed = Cardinality(batch')
               /\ results'.processed = Len(dueReminders')
               /\ \A c \in DOMAIN StatusOf : results'[c] = 0]_vars
    /\ [][(RowStep /\ dpc' = "loop")
            => \E c \in DOMAIN StatusOf :
                  /\ results' = [results EXCEPT ![c] = @ + 1]
                  /\ reminders'[Head(dueReminders).id].send_status = StatusOf[c]]_vars
    /\ [][(dpc = "loop" /\ dpc' = "idle"
             /\ Last(jobLog'["process-reminders"]) = "completed")
            => /\ results.processed = Cardinality(batch)
               /\ results.processed = results.sent + results.skipped + results.failed
               /\ \A c \in DOMAIN StatusOf :
                     results[c] = Cardinality(MarkedWith(StatusOf[c]))]_vars

\* An invocation that read two rows is about to log completed with one of each
\* of two outcomes.
C30_Witness ==
    /\ dpc = "loop"
    /\ dueReminders = <<>>
    /\ results.processed = 2
    /\ Cardinality(batch) = 2
    /\ results.failed = 1
    /\ results.sent + results.skipped = 1

====
